---------------------------- MODULE Spec2Model ----------------------------
(***************************************************************************)
(* Fusionador PDF: the App component (src/unnamed/part_000) and the merge  *)
(* service (src/services/pdfService.ts) as a state machine.                *)
(*                                                                         *)
(* The component's React state is the variables selectedFiles,             *)
(* mergedPdfUrl, isMerging and error.  Every event handler runs to         *)
(* completion on the single UI thread and React re-renders before the next *)
(* event, so a handler's closure holds the state of the moment it is       *)
(* invoked.  The only suspension visible to the component is the           *)
(* `await mergePdfs(pdfFiles)` of handleMergePdfs: the awaits inside       *)
(* mergePdfs touch that call's local variables only.  A suspended call is  *)
(* an element of `calls` (its captured file list); it resumes in           *)
(* handleMergePdfs_resume.                                                 *)
(***************************************************************************)
EXTENDS Integers, Sequences, FiniteSets, TLC

VARIABLES
    selectedFiles,  \* ProcessedFile[]: <<[id, file, name], ...>>
    mergedPdfUrl,   \* string | null: <<>> is null, <<url>> a blob URL
    isMerging,      \* boolean
    error,          \* string | null: <<>> is null, <<msg>> a message
    PDFLib,         \* whether the CDN script defined the global PDFLib
    now,            \* the last value Date.now() returned
    calls,          \* suspended handleMergePdfs invocations (captured File[])
    args,           \* a direct call: mergePdfs' arguments (SpecMerge), the
                    \* last handler called (SpecHandler); null in Spec
    ret             \* a direct call of mergePdfs: its outcome

vars == <<selectedFiles, mergedPdfUrl, isMerging, error, PDFLib, now, calls,
          args, ret>>

\* The component and its environment.
app == <<selectedFiles, mergedPdfUrl, isMerging, error, PDFLib, now, calls>>

---------------------------------------------------------------------------
(* Bounds of the model.                                                    *)

MaxFiles == 2      \* entries the Selection Store may hold
MaxBatch == 2      \* files in one picker selection or one drop
MaxPages == 2      \* pages of one input document
MaxClock == 2      \* largest value of Date.now()
MaxCalls == 2      \* handleMergePdfs invocations suspended at once
MaxInputs == 3     \* files passed to mergePdfs when it is called directly

---------------------------------------------------------------------------
(* Values.                                                                 *)

Null == <<>>
Some(x) == <<x>>

PdfType == "application/pdf"
Types == {PdfType, "text/plain"}
Names == {"a.pdf", "b-1.pdf"}

\* A File: its name, its declared media type, whether PDFDocument.load or
\* copyPages throws on its bytes, and the number of pages of the document.
File == [name : Names, type : Types, throws : BOOLEAN, pages : 0..MaxPages]

\* One representative per behaviour: the pages of a document that cannot be
\* opened or copied are never seen, and a non-PDF file is never opened.
Files ==
    {f \in File :
        /\ (f.throws => f.pages = 0)
        /\ (f.type # PdfType => ~f.throws /\ f.pages = 0)}

RECURSIVE SeqsUpTo(_, _)
SeqsUpTo(S, n) ==
    IF n = 0 THEN {<<>>}
    ELSE LET shorter == SeqsUpTo(S, n - 1)
         IN shorter \cup {Append(s, x) : s \in {t \in shorter : Len(t) = n - 1}, x \in S}

\* The files the user picks and drops: two documents that merge, a damaged
\* document that carries the name of one of them, and a text file.
Disk ==
    {f \in Files :
        \/ f.type = PdfType /\ ~f.throws /\ f.pages = 1
        \/ f.type = PdfType /\ f.throws /\ f.name = "b-1.pdf"
        \/ f.type # PdfType /\ f.name = "a.pdf"}

\* event.dataTransfer.files of a drop: any files, also none (a drag of text)
\* and files of the same name out of different folders.
DropBatches == SeqsUpTo(Disk, MaxBatch)

\* event.target.files of a change event of the file input: the dialog shows
\* one folder, and the event fires only once files were chosen.
PickerBatches ==
    {batch \in DropBatches :
        /\ batch # <<>>
        /\ \A i, j \in 1..Len(batch) : i # j => batch[i].name # batch[j].name}

\* The global PDFLib: defined by the CDN script, defined without its
\* PDFDocument, or not defined at all (the script did not load).
Libs == {"loaded", "broken", "missing"}

---------------------------------------------------------------------------
(* Messages (accents dropped).                                             *)

MsgSelectTwo == "Por favor, selecciona al menos dos archivos PDF para fusionar."
MsgIgnored == "Algunos archivos no eran PDF y fueron ignorados."
MsgNoLib == "La libreria PDF-lib no esta cargada. Por favor, verifica tu conexion a internet o la inclusion del script."
MsgNoFiles == "No se proporcionaron archivos para fusionar."
MsgNoPages == "No se fusionaron paginas con exito. Por favor, revisa tus archivos PDF."
MsgProcess(name) ==
    "Error al procesar " \o name \o ". Podria estar corrupto o protegido por contrasena sin permisos de copia."
\* The engine's ReferenceError when the identifier PDFLib is not defined.
MsgReference == "PDFLib is not defined"
\* The rejection of file.arrayBuffer(): the browser's own DOMException.
MsgRead == "NotReadableError"

---------------------------------------------------------------------------
(* src/services/pdfService.ts                                              *)

Return(bytes) == [ok |-> TRUE, bytes |-> bytes, msg |-> ""]
Throw(msg) == [ok |-> FALSE, bytes |-> <<>>, msg |-> msg]

\* The pages copyPages(pdfDoc, pdfDoc.getPageIndices()) returns, in order.
copiedPages(file) == [k \in 1..file.pages |-> [src |-> file, idx |-> k]]

\* mergeLoop with addPage replaced by an insertion at the front.
RECURSIVE mergeLoop_unshift(_, _, _, _)
mergeLoop_unshift(files, i, pages, rf) ==
    IF i > Len(files)
    THEN IF Len(pages) = 0 THEN Throw(MsgNoPages) ELSE Return(pages)
    ELSE LET file == files[i]
         IN IF file.type # PdfType THEN mergeLoop_unshift(files, i + 1, pages, rf)
            ELSE IF rf = i THEN Throw(MsgRead)
            ELSE IF file.throws THEN Throw(MsgProcess(file.name))
            ELSE mergeLoop_unshift(files, i + 1, copiedPages(file) \o pages, rf)

\* mergeLoop with a catch block that logs and goes on to the next file.
RECURSIVE mergeLoop_swallow(_, _, _, _)
mergeLoop_swallow(files, i, pages, rf) ==
    IF i > Len(files)
    THEN IF Len(pages) = 0 THEN Throw(MsgNoPages) ELSE Return(pages)
    ELSE LET file == files[i]
         IN IF file.type # PdfType THEN mergeLoop_swallow(files, i + 1, pages, rf)
            ELSE IF rf = i THEN Throw(MsgRead)
            ELSE IF file.throws THEN mergeLoop_swallow(files, i + 1, pages, rf)
            ELSE mergeLoop_swallow(files, i + 1, pages \o copiedPages(file), rf)

\* mergeLoop without the getPageCount() === 0 check after the loop.
RECURSIVE mergeLoop_noCheck(_, _, _, _)
mergeLoop_noCheck(files, i, pages, rf) ==
    IF i > Len(files)
    THEN Return(pages)
    ELSE LET file == files[i]
         IN IF file.type # PdfType THEN mergeLoop_noCheck(files, i + 1, pages, rf)
            ELSE IF rf = i THEN Throw(MsgRead)
            ELSE IF file.throws THEN Throw(MsgProcess(file.name))
            ELSE mergeLoop_noCheck(files, i + 1, pages \o copiedPages(file), rf)

\* The for loop over files from position i on, mergedPdf holding `pages`.
\* rf is the position of the file whose arrayBuffer() rejects (0: none).
RECURSIVE mergeLoop(_, _, _, _)
mergeLoop(files, i, pages, rf) ==
    IF i > Len(files)
    THEN IF Len(pages) = 0 THEN Throw(MsgNoPages) ELSE Return(pages)
    ELSE LET file == files[i]
         IN IF file.type # PdfType THEN mergeLoop(files, i + 1, pages, rf)
            ELSE IF rf = i THEN Throw(MsgRead)
            ELSE IF file.throws THEN Throw(MsgProcess(file.name))
            ELSE mergeLoop(files, i + 1, pages \o copiedPages(file), rf)

\* The checks that run before the first await.
libraryCheck(lib) ==
    IF lib = "missing" THEN Throw(MsgReference)
    ELSE IF lib = "broken" THEN Throw(MsgNoLib)
    ELSE Return(<<>>)

mergePdfs(files, lib, rf) ==
    IF ~libraryCheck(lib).ok THEN libraryCheck(lib)
    ELSE IF Len(files) = 0 THEN Throw(MsgNoFiles)
    ELSE mergeLoop(files, 1, <<>>, rf)

---------------------------------------------------------------------------
(* src/unnamed/part_000: the App component                                 *)

\* `${file.name}-${Date.now()}`
makeId(name, t) == name \o "-" \o ToString(t)

ProcessedFile(file, t) == [id |-> makeId(file.name, t), file |-> file, name |-> file.name]

\* The filter left out.
isPdf_any(file) == TRUE

\* file.type === 'application/pdf'
isPdf(file) == file.type = PdfType

\* The readings of Date.now() by the map callbacks of one batch: the clock
\* never runs backwards, and may have advanced since it was last read.
Readings(n) ==
    {r \in [1..n -> now..MaxClock] : \A i \in 1..n - 1 : r[i] <= r[i + 1]}

\* Array.from(files).filter(...).map(...)
newFilesOf(batch, r) ==
    LET pdfs == SelectSeq(batch, isPdf)
    IN [i \in 1..Len(pdfs) |-> ProcessedFile(pdfs[i], r[i])]

\* The updater with unshift in place of push.
RECURSIVE pushNew_unshift(_, _, _)
pushNew_unshift(prevFiles, updatedFiles, newFiles) ==
    IF newFiles = <<>> THEN updatedFiles
    ELSE LET nf == Head(newFiles)
         IN pushNew_unshift(prevFiles,
                    IF \E i \in 1..Len(prevFiles) : prevFiles[i].name = nf.name
                    THEN updatedFiles ELSE <<nf>> \o updatedFiles,
                    Tail(newFiles))

\* The updater passed to setSelectedFiles by handleFileChange and handleDrop.
RECURSIVE pushNew(_, _, _)
pushNew(prevFiles, updatedFiles, newFiles) ==
    IF newFiles = <<>> THEN updatedFiles
    ELSE LET nf == Head(newFiles)
         IN pushNew(prevFiles,
                    IF \E i \in 1..Len(prevFiles) : prevFiles[i].name = nf.name
                    THEN updatedFiles ELSE Append(updatedFiles, nf),
                    Tail(newFiles))

addFiles(prevFiles, newFiles) == pushNew(prevFiles, prevFiles, newFiles)

\* The body shared, line for line, by handleFileChange and handleDrop.
ingest(batch) ==
    \E r \in Readings(Len(SelectSeq(batch, isPdf))) :
        LET newFiles == newFilesOf(batch, r)
        IN /\ Len(addFiles(selectedFiles, newFiles)) <= MaxFiles
           /\ error' = IF Len(newFiles) # Len(batch) THEN Some(MsgIgnored) ELSE Null
           /\ selectedFiles' = addFiles(selectedFiles, newFiles)
           /\ now' = IF Len(newFiles) = 0 THEN now ELSE r[Len(newFiles)]
           /\ UNCHANGED <<mergedPdfUrl, isMerging, PDFLib, calls>>

handleFileChange(batch) == ingest(batch)

handleDrop(batch) == ingest(batch)

\* findIndex and splice in place of filter: one entry goes, the last one
\* when no id matches (splice(-1, 1)).
removeById_splice(prevFiles, fileId) ==
    LET hits == {i \in 1..Len(prevFiles) : prevFiles[i].id = fileId}
        at == IF hits = {} THEN Len(prevFiles)
              ELSE CHOOSE i \in hits : \A j \in hits : i <= j
    IN [i \in 1..Len(prevFiles) - 1 |-> IF i < at THEN prevFiles[i] ELSE prevFiles[i + 1]]

\* prevFiles.filter(f => f.id !== fileId)
removeById(prevFiles, fileId) ==
    LET keep(f) == f.id # fileId IN SelectSeq(prevFiles, keep)

handleRemoveFile(fileId) ==
    /\ selectedFiles' = removeById(selectedFiles, fileId)
    /\ mergedPdfUrl' = IF mergedPdfUrl # Null THEN Null ELSE mergedPdfUrl
    /\ UNCHANGED <<isMerging, error, PDFLib, now, calls>>

\* URL.createObjectURL(new Blob([mergedPdfBytes])); `of` records the file
\* list the bytes were produced from.
objectUrl(bytes, files) == [blob |-> bytes, of |-> files]

pdfFilesOf(files) == [i \in 1..Len(files) |-> files[i].file]

\* The guard off by one.
tooFew_offByOne(files) == Len(files) < 1

\* selectedFiles.length < 2
tooFew(files) == Len(files) < 2

\* handleMergePdfs without the setMergedPdfUrl(null) before the try.
handleMergePdfs_keepUrl ==
    IF tooFew(selectedFiles)
    THEN /\ error' = Some(MsgSelectTwo)
         /\ UNCHANGED <<selectedFiles, mergedPdfUrl, isMerging, PDFLib, now, calls>>
    ELSE /\ mergedPdfUrl' = mergedPdfUrl
         /\ IF libraryCheck(PDFLib).ok
            THEN /\ Len(calls) < MaxCalls
                 /\ isMerging' = TRUE
                 /\ error' = Null
                 /\ calls' = Append(calls, pdfFilesOf(selectedFiles))
            ELSE /\ isMerging' = FALSE
                 /\ error' = Some(libraryCheck(PDFLib).msg)
                 /\ calls' = calls
         /\ UNCHANGED <<selectedFiles, PDFLib, now>>

\* handleMergePdfs up to the suspension of `await mergePdfs(pdfFiles)`.  A
\* missing library rejects before any real suspension: catch and finally
\* run before the next event.
handleMergePdfs ==
    IF tooFew(selectedFiles)
    THEN /\ error' = Some(MsgSelectTwo)
         /\ UNCHANGED <<selectedFiles, mergedPdfUrl, isMerging, PDFLib, now, calls>>
    ELSE /\ mergedPdfUrl' = Null
         /\ IF libraryCheck(PDFLib).ok
            THEN /\ Len(calls) < MaxCalls
                 /\ isMerging' = TRUE
                 /\ error' = Null
                 /\ calls' = Append(calls, pdfFilesOf(selectedFiles))
            ELSE /\ isMerging' = FALSE
                 /\ error' = Some(libraryCheck(PDFLib).msg)
                 /\ calls' = calls
         /\ UNCHANGED <<selectedFiles, PDFLib, now>>

dropCall(k) == [i \in 1..Len(calls) - 1 |-> IF i < k THEN calls[i] ELSE calls[i + 1]]

\* settle with setMergedPdfUrl moved to the finally block.
settle_always(k, result) ==
    /\ mergedPdfUrl' = Some(objectUrl(result.bytes, calls[k]))
    /\ error' = IF result.ok THEN error ELSE Some(result.msg)
    /\ isMerging' = FALSE
    /\ calls' = dropCall(k)
    /\ UNCHANGED <<selectedFiles, PDFLib, now>>

\* settle without the finally block.
settle_noFinally(k, result) ==
    /\ IF result.ok
       THEN /\ mergedPdfUrl' = Some(objectUrl(result.bytes, calls[k]))
            /\ error' = error
       ELSE /\ error' = Some(result.msg)
            /\ mergedPdfUrl' = mergedPdfUrl
    /\ calls' = dropCall(k)
    /\ UNCHANGED <<selectedFiles, isMerging, PDFLib, now>>

\* The rest of handleMergePdfs once mergePdfs has settled: try, catch, finally.
settle(k, result) ==
    /\ IF result.ok
       THEN /\ mergedPdfUrl' = Some(objectUrl(result.bytes, calls[k]))
            /\ error' = error
       ELSE /\ error' = Some(result.msg)
            /\ mergedPdfUrl' = mergedPdfUrl
    /\ isMerging' = FALSE
    /\ calls' = dropCall(k)
    /\ UNCHANGED <<selectedFiles, PDFLib, now>>

\* The resumption reading the store instead of the pdfFiles it was given.
handleMergePdfs_resume_live(k) ==
    \E rf \in 0..Len(selectedFiles) : settle(k, mergePdfs(pdfFilesOf(selectedFiles), PDFLib, rf))

handleMergePdfs_resume(k) ==
    \E rf \in 0..Len(calls[k]) : settle(k, mergePdfs(calls[k], PDFLib, rf))

\* if (mergedPdfUrl): the anchor is created and clicked only then.
anchorClicked == mergedPdfUrl # Null

\* The handler with the revocation of its last line in force, the state
\* following the URL.
handleDownloadMergedPdf_revoke ==
    /\ mergedPdfUrl' = Null
    /\ UNCHANGED <<selectedFiles, isMerging, error, PDFLib, now, calls>>

\* The anchor element is created, clicked and removed: no state is written.
handleDownloadMergedPdf ==
    /\ UNCHANGED app

\* handleClearAll without its setIsMerging(false).
handleClearAll_keepFlag ==
    /\ selectedFiles' = <<>>
    /\ mergedPdfUrl' = Null
    /\ error' = Null
    /\ UNCHANGED <<isMerging, PDFLib, now, calls>>

handleClearAll ==
    /\ selectedFiles' = <<>>
    /\ mergedPdfUrl' = Null
    /\ error' = Null
    /\ isMerging' = FALSE
    /\ UNCHANGED <<PDFLib, now, calls>>

---------------------------------------------------------------------------
(* What the rendered page lets the user do.                                *)

\* disabled={selectedFiles.length < 2 || isMerging}
mergeDisabled == Len(selectedFiles) < 2 \/ isMerging

\* {(selectedFiles.length > 0 || mergedPdfUrl) && <button ...>}
clearShown == Len(selectedFiles) > 0 \/ mergedPdfUrl # Null

\* {mergedPdfUrl && <button ...>}
downloadShown == mergedPdfUrl # Null

\* One remove button per listed entry.
removeIds == {selectedFiles[i].id : i \in 1..Len(selectedFiles)}

\* Every id a remove may be asked for.
AnyIds == {makeId(name, t) : name \in Names, t \in 1..MaxClock}

Init ==
    /\ selectedFiles = <<>>
    /\ mergedPdfUrl = Null
    /\ isMerging = FALSE
    /\ error = Null
    /\ PDFLib \in Libs
    /\ now = 1
    /\ calls = <<>>
    /\ args = Null
    /\ ret = Null

---------------------------------------------------------------------------
(* Spec: the page as the user drives it.  A handler runs only when the     *)
(* control it is bound to is rendered and enabled.                         *)

PickFiles == \E batch \in PickerBatches : handleFileChange(batch) /\ UNCHANGED <<args, ret>>
DropFiles == \E batch \in DropBatches : handleDrop(batch) /\ UNCHANGED <<args, ret>>
ClickRemove == \E fileId \in removeIds : handleRemoveFile(fileId) /\ UNCHANGED <<args, ret>>
ClickMerge == ~mergeDisabled /\ handleMergePdfs /\ UNCHANGED <<args, ret>>
Resume == \E k \in 1..Len(calls) : handleMergePdfs_resume(k) /\ UNCHANGED <<args, ret>>
ClickDownload == downloadShown /\ handleDownloadMergedPdf /\ UNCHANGED <<args, ret>>
ClickClear == clearShown /\ handleClearAll /\ UNCHANGED <<args, ret>>

Next ==
    \/ PickFiles
    \/ DropFiles
    \/ ClickRemove
    \/ ClickMerge
    \/ Resume
    \/ ClickDownload
    \/ ClickClear

Spec == Init /\ [][Next]_vars

\* The file reads and the library's promises settle: every suspended
\* `await mergePdfs(pdfFiles)` is eventually resumed by the event loop.
\* Nothing obliges the user to act.
ResumeFair ==
    \A k \in 1..MaxCalls :
        WF_vars(k <= Len(calls) /\ handleMergePdfs_resume(k) /\ UNCHANGED <<args, ret>>)

SpecLive == Init /\ [][Next]_vars /\ ResumeFair

---------------------------------------------------------------------------
(* SpecHandler: the handlers called as functions, whatever the page shows, *)
(* with any argument.  args records the last handler called and, for       *)
(* handleRemoveFile, whether its id matched an entry; for                  *)
(* handleDownloadMergedPdf, whether the anchor was clicked.                *)

Called(op, hit) == args' = Some([op |-> op, hit |-> hit]) /\ ret' = ret

CallFileChange == \E batch \in PickerBatches : handleFileChange(batch) /\ Called("handleFileChange", FALSE)
CallDrop == \E batch \in DropBatches : handleDrop(batch) /\ Called("handleDrop", FALSE)
CallRemoveFile == \E fileId \in AnyIds : handleRemoveFile(fileId) /\ Called("handleRemoveFile", fileId \in removeIds)
CallMergePdfs == handleMergePdfs /\ Called("handleMergePdfs", FALSE)
CallResume == \E k \in 1..Len(calls) : handleMergePdfs_resume(k) /\ Called("handleMergePdfs_resume", FALSE)
CallDownload == handleDownloadMergedPdf /\ Called("handleDownloadMergedPdf", anchorClicked)
CallClearAll == handleClearAll /\ Called("handleClearAll", FALSE)

NextHandler ==
    \/ CallFileChange
    \/ CallDrop
    \/ CallRemoveFile
    \/ CallMergePdfs
    \/ CallResume
    \/ CallDownload
    \/ CallClearAll

SpecHandler == Init /\ [][NextHandler]_vars

---------------------------------------------------------------------------
(* SpecMerge: mergePdfs called directly on any list of files.              *)

InitMerge ==
    /\ selectedFiles = <<>>
    /\ mergedPdfUrl = Null
    /\ isMerging = FALSE
    /\ error = Null
    /\ PDFLib \in Libs
    /\ now = 1
    /\ calls = <<>>
    /\ args \in {[files |-> files, rf |-> rf] :
                    files \in SeqsUpTo(Files, MaxInputs), rf \in 0..MaxInputs}
    /\ args.rf <= Len(args.files)
    /\ ret = Null

CallMerge ==
    /\ ret = Null
    /\ ret' = Some(mergePdfs(args.files, PDFLib, args.rf))
    /\ UNCHANGED <<app, args>>

NextMerge == CallMerge

SpecMerge == InitMerge /\ [][NextMerge]_vars

---------------------------------------------------------------------------
(* Properties.                                                             *)

\* The pages of a document, in their original order.
PagesOf(file) == [k \in 1..file.pages |-> [src |-> file, idx |-> k]]

RECURSIVE Concatenation(_)
Concatenation(files) ==
    IF files = <<>> THEN <<>> ELSE PagesOf(Head(files)) \o Concatenation(Tail(files))

RECURSIVE PageSum(_)
PageSum(files) ==
    IF files = <<>> THEN 0 ELSE Head(files).pages + PageSum(Tail(files))

ValidPdfs(files) ==
    \A i \in 1..Len(files) : files[i].type = PdfType /\ ~files[i].throws

\* mergePdfs has returned from a call on at least two valid PDF inputs, with
\* the library loaded and every file readable.
C1_Case ==
    /\ ret # Null
    /\ PDFLib = "loaded"
    /\ args.rf = 0
    /\ Len(args.files) >= 2
    /\ ValidPdfs(args.files)

\* C1 as stated: for every sequence of at least two valid PDF inputs,
\* mergePdfs returns the concatenation of the inputs' pages, inputs in list
\* order and each input's pages in their original order, so that the page
\* count of the output is the sum of the inputs' page counts.
C1_Original ==
    C1_Case =>
        /\ ret[1].ok
        /\ ret[1].bytes = Concatenation(args.files)
        /\ Len(ret[1].bytes) = PageSum(args.files)

\* C1 as amended: the same, for inputs that hold at least one page between
\* them; when none of the inputs has a page, mergePdfs throws the "no pages
\* merged" error and returns nothing.
C1_Amended ==
    C1_Case =>
        IF PageSum(args.files) >= 1
        THEN /\ ret[1].ok
             /\ ret[1].bytes = Concatenation(args.files)
             /\ Len(ret[1].bytes) = PageSum(args.files)
        ELSE ret[1] = Throw(MsgNoPages)

C1_Witness ==
    /\ C1_Case
    /\ ret[1].ok
    /\ args.files[1].pages = 2
    /\ args.files[2].pages = 1
    /\ args.files[1].name # args.files[2].name
    /\ Len(ret[1].bytes) = 3

\* C2 as stated: in every reachable state no two entries of the Selection
\* Store share a display name.
C2_NoDuplicateNames ==
    \A i, j \in 1..Len(selectedFiles) :
        i # j => selectedFiles[i].name # selectedFiles[j].name

\* C3 as stated: every add that changes the Selection Store and every remove
\* leaves mergedPdfUrl null; a step that changes the store is an add, a
\* remove or a clear.
C3_StoreChangeInvalidates ==
    [][selectedFiles' # selectedFiles => mergedPdfUrl' = Null]_vars

\* C4 as stated: at most one merge is in flight at any time.
C4_OneMergeInFlight == Len(calls) <= 1

\* File j of the list is the one whose load or copy throws: no file before
\* it throws, and the files up to it are read.
C5_ThrowsAt(files, j, rf) ==
    /\ files[j].type = PdfType
    /\ files[j].throws
    /\ \A i \in 1..j - 1 : ~(files[i].type = PdfType /\ files[i].throws)
    /\ \A i \in 1..j : files[i].type = PdfType => rf # i

\* C5: when an input file of a merge fails to load or to have its pages
\* copied, mergePdfs returns no buffer and throws the message naming that
\* file (and no other), and the handler stores that message, leaves
\* mergedPdfUrl as it was and resets isMerging.
C5_FailureNamesFile ==
    [][\A k \in 1..Len(calls) : \A rf \in 0..Len(calls[k]) : \A j \in 1..Len(calls[k]) :
          LET result == mergePdfs(calls[k], PDFLib, rf)
          IN (C5_ThrowsAt(calls[k], j, rf) /\ settle(k, result)) =>
                /\ ~result.ok
                /\ result.bytes = <<>>
                /\ result.msg = MsgProcess(calls[k][j].name)
                /\ \A name \in Names \ {calls[k][j].name} : result.msg # MsgProcess(name)
                /\ error' = Some(result.msg)
                /\ mergedPdfUrl' = mergedPdfUrl
                /\ isMerging' = FALSE]_vars

C5_Witness ==
    /\ error = Some(MsgProcess("b-1.pdf"))
    /\ mergedPdfUrl = Null
    /\ ~isMerging
    /\ calls = <<>>
    /\ Len(selectedFiles) = 2
    /\ selectedFiles[2].file.throws

LastCall(op) == args # Null /\ args[1].op = op

\* C6: a call of handleMergePdfs while the store holds fewer than two files
\* starts no merge (mergePdfs is not invoked: no call is suspended, and
\* isMerging and mergedPdfUrl are untouched) and stores the validation
\* message.
C6_TooFewFiles ==
    [][(Len(selectedFiles) < 2 /\ LastCall("handleMergePdfs")') =>
          /\ error' = Some(MsgSelectTwo)
          /\ UNCHANGED <<selectedFiles, mergedPdfUrl, isMerging, calls>>]_vars

C6_Witness ==
    /\ LastCall("handleMergePdfs")
    /\ Len(selectedFiles) = 1
    /\ error = Some(MsgSelectTwo)
    /\ calls = <<>>

\* C7 as stated: the entries present in the Selection Store at the same time
\* have distinct identifiers.
C7_DistinctIds ==
    \A i, j \in 1..Len(selectedFiles) :
        i # j => selectedFiles[i].id # selectedFiles[j].id

\* C8: whenever mergedPdfUrl is set, it holds the output of a merge of at
\* least two files that succeeded; and the only step that sets it is the
\* resumption of a suspended call, taken with at least two files, whose
\* mergePdfs returned.
C8_ResultFromSuccessfulMerge ==
    /\ [](mergedPdfUrl # Null =>
            /\ Len(mergedPdfUrl[1].of) >= 2
            /\ Len(mergedPdfUrl[1].blob) >= 1
            /\ mergedPdfUrl[1].blob = Concatenation(mergedPdfUrl[1].of)
            /\ ValidPdfs(mergedPdfUrl[1].of))
    /\ [][(mergedPdfUrl' # mergedPdfUrl /\ mergedPdfUrl' # Null) =>
            /\ LastCall("handleMergePdfs_resume")'
            /\ \E k \in 1..Len(calls) :
                  /\ Len(calls[k]) >= 2
                  /\ calls' = dropCall(k)
                  /\ mergedPdfUrl'[1].of = calls[k]
                  /\ \E rf \in 0..Len(calls[k]) : mergePdfs(calls[k], PDFLib, rf).ok]_vars

C8_Witness ==
    /\ mergedPdfUrl # Null
    /\ LastCall("handleMergePdfs_resume")
    /\ Len(mergedPdfUrl[1].blob) = 2

\* C9: an add whose batch holds a non-PDF entry stores the aggregate warning
\* and inserts no non-PDF entry: the store never holds one, and a batch of
\* non-PDF entries only leaves the store as it was.
C9_NonPdfIgnored ==
    /\ [](\A i \in 1..Len(selectedFiles) : selectedFiles[i].file.type = PdfType)
    /\ [][\A batch \in DropBatches :
            ((\E i \in 1..Len(batch) : batch[i].type # PdfType) /\ handleDrop(batch)) =>
                /\ error' = Some(MsgIgnored)
                /\ Len(selectedFiles') - Len(selectedFiles)
                      <= Cardinality({i \in 1..Len(batch) : batch[i].type = PdfType})
                /\ ((\A i \in 1..Len(batch) : batch[i].type # PdfType)
                      => selectedFiles' = selectedFiles)]_vars

C9_Witness ==
    /\ error = Some(MsgIgnored)
    /\ Len(selectedFiles) = 1
    /\ mergedPdfUrl # Null

\* C10: handleRemoveFile with an id that matches no entry leaves the store
\* (and the error state) as it was; and a remove is idempotent: the state a
\* remove leaves is one the same remove does not change.
C10_RemoveIdempotent ==
    /\ [][(LastCall("handleRemoveFile")' /\ ~args'[1].hit) =>
            /\ selectedFiles' = selectedFiles
            /\ error' = error]_vars
    /\ [][\A fileId \in AnyIds :
            handleRemoveFile(fileId) =>
                /\ removeById(selectedFiles', fileId) = selectedFiles'
                /\ mergedPdfUrl' = Null]_vars
    /\ [](\A fileId \in AnyIds :
            removeById(removeById(selectedFiles, fileId), fileId)
                = removeById(selectedFiles, fileId))

C10_Witness ==
    /\ LastCall("handleRemoveFile")
    /\ ~args[1].hit
    /\ Len(selectedFiles) = 2

\* C11: handleClearAll, called in any state, also while a merge is in
\* flight, leaves the store empty, mergedPdfUrl null, error null and
\* isMerging false.
C11_ClearResets ==
    [][LastCall("handleClearAll")' =>
          /\ selectedFiles' = <<>>
          /\ mergedPdfUrl' = Null
          /\ error' = Null
          /\ isMerging' = FALSE]_vars

C11_Witness ==
    /\ LastCall("handleClearAll")
    /\ calls # <<>>
    /\ selectedFiles = <<>>
    /\ ~isMerging

\* C12: every merge that is started runs to completion or failure.  A step
\* that takes a call out of the suspended ones leaves isMerging false and
\* either sets mergedPdfUrl to that call's result or stores an error (the
\* catch covers every failure, a rejected file read included); either no
\* call stays suspended in the end or the oldest suspended call is taken
\* out again and again, so every call is taken out; and isMerging, once
\* true, is eventually false again.
C12_MergeSettles ==
    /\ [][Len(calls') < Len(calls) =>
            /\ isMerging' = FALSE
            /\ \E k \in 1..Len(calls) :
                  /\ calls' = dropCall(k)
                  /\ \/ mergedPdfUrl' # Null /\ mergedPdfUrl'[1].of = calls[k] /\ error' = error
                     \/ error' # Null /\ mergedPdfUrl' = mergedPdfUrl]_vars
    /\ \/ <>[](calls = <<>>)
       \/ []<><<calls # <<>> /\ calls' = dropCall(1)>>_vars
    /\ (isMerging ~> ~isMerging)

C12_Witness ==
    /\ calls = <<>>
    /\ ~isMerging
    /\ error = Some(MsgRead)
    /\ Len(selectedFiles) = 2

\* C13: a merge works on the file list taken from the store when it was
\* triggered and never writes the store.  Starting a merge suspends a call
\* on the store's files in store order and leaves the store alone; no
\* other handler touches a suspended call's files; the resumption leaves the
\* store alone, and what it publishes (the URL's blob or the error) is
\* mergePdfs of that call's files, whatever the store holds by then.
C13_MergesSnapshot ==
    /\ [][(LastCall("handleMergePdfs")' /\ calls' # calls) =>
            /\ calls' = Append(calls, [i \in 1..Len(selectedFiles) |-> selectedFiles[i].file])
            /\ selectedFiles' = selectedFiles]_vars
    /\ [][(~LastCall("handleMergePdfs")' /\ ~LastCall("handleMergePdfs_resume")') =>
            calls' = calls]_vars
    /\ [][LastCall("handleMergePdfs_resume")' =>
            /\ selectedFiles' = selectedFiles
            /\ \E k \in 1..Len(calls) :
                  /\ calls' = dropCall(k)
                  /\ \E rf \in 0..Len(calls[k]) :
                        LET result == mergePdfs(calls[k], PDFLib, rf)
                        IN  IF result.ok
                            THEN /\ mergedPdfUrl' = Some([blob |-> result.bytes, of |-> calls[k]])
                                 /\ error' = error
                            ELSE /\ mergedPdfUrl' = mergedPdfUrl
                                 /\ error' = Some(result.msg)]_vars

C13_Witness ==
    /\ LastCall("handleMergePdfs_resume")
    /\ calls = <<>>
    /\ error = Null
    /\ mergedPdfUrl # Null
    /\ Len(mergedPdfUrl[1].of) = 2
    /\ Len(selectedFiles) = 1

\* C14: handleDownloadMergedPdf can be called any number of times on the
\* same mergedPdfUrl: a call leaves mergedPdfUrl, the store, error and
\* isMerging (and the suspended merges) as they were, so the next call
\* finds the same URL; and it clicks no anchor when mergedPdfUrl is null.
C14_DownloadReadsOnly ==
    [][LastCall("handleDownloadMergedPdf")' =>
          /\ UNCHANGED <<mergedPdfUrl, selectedFiles, error, isMerging, calls>>
          /\ args'[1].hit <=> mergedPdfUrl # Null]_vars

C14_Witness ==
    /\ LastCall("handleDownloadMergedPdf")
    /\ args[1].hit
    /\ mergedPdfUrl # Null
    /\ calls # <<>>

\* mergePdfs has returned from a call on a non-empty list in which no PDF
\* file failed to be read, loaded or copied, and in which the PDF files
\* hold no page at all (the other files are skipped).
C15_Case ==
    /\ ret # Null
    /\ PDFLib = "loaded"
    /\ Len(args.files) >= 1
    /\ \A i \in 1..Len(args.files) :
          args.files[i].type = PdfType =>
              /\ ~args.files[i].throws
              /\ args.rf # i
              /\ args.files[i].pages = 0

\* C15: when every input has been processed without a per-file error and
\* the merged document holds zero pages, mergePdfs returns no buffer and
\* throws the "no pages merged" error.
C15_NoPagesThrows ==
    C15_Case =>
        /\ ~ret[1].ok
        /\ ret[1].bytes = <<>>
        /\ ret[1].msg = MsgNoPages

C15_Witness ==
    /\ C15_Case
    /\ ret[1].msg = MsgNoPages
    /\ \E i, j \in 1..Len(args.files) :
          /\ args.files[i].type = PdfType
          /\ args.files[j].type # PdfType

\* C16 as stated: whenever mergedPdfUrl is set, it was produced from exactly
\* the files now in the store, in store order (so a merge during which the
\* store was changed never has its output made available).
C16_ResultMatchesStore ==
    mergedPdfUrl # Null =>
        mergedPdfUrl[1].of = [i \in 1..Len(selectedFiles) |-> selectedFiles[i].file]

\* C17 as stated: in every reachable state isMerging is true if and only if
\* a merge is in flight (a call of mergePdfs started and not yet settled).
C17_FlagIffInFlight ==
    isMerging <=> calls # <<>>

\* C18: in no reachable state is isMerging true while mergedPdfUrl is set,
\* whatever the interleaving of adds, removes, clears, merges and merge
\* completions.
C18_NoResultWhileMerging ==
    ~(isMerging /\ mergedPdfUrl # Null)

\* A merge has completed and published its result while another one, started
\* after a clear, is still in flight.
C18_Witness ==
    /\ mergedPdfUrl # Null
    /\ calls # <<>>
    /\ ~isMerging

\* The files of the store's entries, in store order.
C19_FilesOf(entries) == [i \in 1..Len(entries) |-> entries[i].file]

\* The positions of the entries a remove of fileId keeps, and the j-th of
\* them.
C19_Kept(fileId) == {i \in 1..Len(selectedFiles) : selectedFiles[i].id # fileId}

C19_KeptAt(fileId, j) ==
    CHOOSE i \in C19_Kept(fileId) : Cardinality({m \in C19_Kept(fileId) : m <= i}) = j

===========================================================================
